---- MODULE Spec2Model ----
(***************************************************************************)
(* Model of the autobooks-ai document-ingestion relay (app/main.py,        *)
(* app/parse.py, app/utils.py, app/ocr.py).                                *)
(*                                                                         *)
(* One request is followed from its arrival to its response.  Every call   *)
(* to a collaborator (token refresh, OCR engine, hosted model, local model *)
(* server, backend ledger, backend reports) is a step whose answer is      *)
(* chosen by the environment; each call is appended to the log `calls`.    *)
(*                                                                         *)
(* Text is a sequence of characters over Alphabet:                         *)
(*   "{" "}"  braces,  " " whitespace,  "d" any other character.  Between  *)
(*   the braces of an object "d" stands for the member                     *)
(*   "document_type": "invoice"; outside it is prose.                      *)
(***************************************************************************)
EXTENDS Integers, Sequences, FiniteSets, TLC

\* ------------------------------------------------------------------ bounds
\* Longest model output enumerated exhaustively (specification SpecExtract).
MaxLen == 3

\* Requests in flight together (specification SpecConc).
NumRequests == 2

\* Longest upload, in chunks (specification SpecConc).
MaxUploadLen == 2

\* ------------------------------------------------------------------ values
\* Python's None.
NoneVal == "<None>"

Alphabet == {"{", "}", "d", " "}

\* Every text of at most MaxLen characters.
Texts == UNION {[1..n -> Alphabet] : n \in 0..MaxLen}

\* The model outputs the endpoint specification draws from.
SampleTexts ==
  { <<>>, <<" ">>, <<"d">>, <<"{", "}">>, <<"{", "d", "}">>,
    <<"d", "{", "d", "}">>, <<"{", "d", "d", "}">>, <<" ", "{", "}", " ">> }

\* What the OCR engine can read off a receipt.
OcrTexts == { <<>>, <<"d">>, <<" ">> }

\* A Python dict with no key.
EmptyDict == [k \in {} |-> NoneVal]

\* dict.get(key, default)
DictGet(dict, key, default) ==
  IF key \in DOMAIN dict THEN dict[key] ELSE default

\* ------------------------------------------------------------ text helpers
\* str.strip(): leading and trailing whitespace removed.
RECURSIVE Strip(_)
Strip(s) ==
  IF s = <<>> THEN s
  ELSE IF Head(s) = " " THEN Strip(Tail(s))
  ELSE IF s[Len(s)] = " " THEN Strip(SubSeq(s, 1, Len(s) - 1))
  ELSE s

NoMatch == <<"<no match>">>

\* re.search(r"\{.*\}", s, re.DOTALL).group(): the leftmost "{" that has a
\* "}" after it, up to the last "}" of the text (greedy); NoMatch otherwise.
RegexSearch(s) ==
  LET opens == {i \in 1..Len(s) : s[i] = "{" /\ \E j \in (i+1)..Len(s) : s[j] = "}"}
  IN  IF opens = {} THEN NoMatch
      ELSE LET i == CHOOSE a \in opens : \A b \in opens : a <= b
               j == CHOOSE a \in (i+1)..Len(s) :
                      /\ s[a] = "}"
                      /\ \A b \in (a+1)..Len(s) : s[b] # "}"
           IN  SubSeq(s, i, j)

\* json.loads(m) for a text m that starts with "{" and ends with "}":
\* [ok |-> FALSE] stands for json.JSONDecodeError.
JsonLoads(m) ==
  LET inner == Strip(SubSeq(m, 2, Len(m) - 1))
  IN  IF inner = <<>> THEN [ok |-> TRUE, value |-> EmptyDict]
      ELSE IF inner = <<"d">>
        THEN [ok |-> TRUE, value |-> [document_type |-> "invoice"]]
      ELSE [ok |-> FALSE, value |-> EmptyDict]

\* Python truthiness of an optional string.
Truthy(v) == v \notin {NoneVal, ""}

\* ---------------------------------------------------------- Token Validator
\* The credentials a client may send as the bearer token.
Credentials == {"tok_alice", "tok_nouid", "tok_expired", "tok_forged"}

\* The "access" value a refresh answer may carry (NoneVal: key absent).
AccessValues == {"tok_fresh", "tok_nouid", "tok_expired", "tok_forged", NoneVal}

\* jwt.decode(token, SECRET_KEY, algorithms=[ALGORITHM]):
\*   res "ok" with the payload, "expired" (ExpiredSignatureError),
\*   "invalid" (any other JWTError), "error" (not a string: no JWTError).
JwtDecode(t) ==
  CASE t \in {"tok_alice", "tok_fresh"} ->
         [res |-> "ok",
          payload |-> [username |-> "alice", email |-> "alice@x", user_id |-> "u1"]]
    [] t = "tok_nouid" ->
         [res |-> "ok", payload |-> [username |-> "bob"]]
    [] t = "tok_expired" -> [res |-> "expired", payload |-> EmptyDict]
    [] t = NoneVal -> [res |-> "error", payload |-> EmptyDict]
    [] OTHER -> [res |-> "invalid", payload |-> EmptyDict]

\* The Identity built from a decoded payload.
IdentityOf(payload) ==
  [username |-> DictGet(payload, "username", NoneVal),
   email    |-> DictGet(payload, "email", NoneVal),
   user_id  |-> DictGet(payload, "user_id", NoneVal)]

NoIdentity == [username |-> NoneVal, email |-> NoneVal, user_id |-> NoneVal]

\* Answers of POST {BACKEND_API}/token/refresh/ :
\*   kind "raise"   the call raises (connection error),
\*   kind "nojson"  an answer whose body is not JSON,
\*   kind "resp"    an answer with a JSON body carrying `access`.
RefreshOutcomes ==
  {[kind |-> "raise", status |-> 0, access |-> NoneVal]}
    \cup [kind : {"resp"}, status : {200, 401}, access : AccessValues]
    \cup [kind : {"nojson"}, status : {200}, access : {NoneVal}]

\* The refresh branch of decode_token: the Identity decoded from the new
\* access credential, or ok = FALSE when the branch falls through.
RefreshIdentity(ro) ==
  IF ro.kind = "resp" /\ ro.status = 200 /\ JwtDecode(ro.access).res = "ok"
    THEN [ok |-> TRUE, identity |-> IdentityOf(JwtDecode(ro.access).payload)]
    ELSE [ok |-> FALSE, identity |-> NoIdentity]

\* decode_token without the inner handler around the refresh: a refresh that
\* raises, or a new credential that does not decode, escapes as it is.
decode_token_unguarded(tok, refresh_token, ro) ==
  LET d == JwtDecode(tok)
  IN  CASE d.res = "ok" ->
             [raised |-> 0, detail |-> "", identity |-> IdentityOf(d.payload),
              refreshes |-> 0]
        [] d.res = "expired" ->
             IF Truthy(refresh_token) /\ RefreshIdentity(ro).ok
               THEN [raised |-> 0, detail |-> "",
                     identity |-> RefreshIdentity(ro).identity, refreshes |-> 1]
             ELSE IF Truthy(refresh_token) /\ (ro.kind # "resp" \/ ro.status = 200)
               THEN [raised |-> 500, detail |-> "refresh error",
                     identity |-> NoIdentity, refreshes |-> 1]
             ELSE [raised |-> 401, detail |-> "Token has expired.",
                   identity |-> NoIdentity,
                   refreshes |-> IF Truthy(refresh_token) THEN 1 ELSE 0]
        [] d.res = "invalid" ->
             [raised |-> 401, detail |-> "Invalid token.",
              identity |-> NoIdentity, refreshes |-> 0]
        [] OTHER ->
             [raised |-> 500, detail |-> "AttributeError",
              identity |-> NoIdentity, refreshes |-> 0]

\* decode_token(token, refresh_token), with ro the answer the refresh
\* endpoint gives if it is asked.  raised = 0: returns `identity`;
\* otherwise the status of the HTTPException raised (500: another
\* exception type escapes).  refreshes: refresh calls made.
decode_token(tok, refresh_token, ro) ==
  LET d == JwtDecode(tok)
  IN  CASE d.res = "ok" ->
             [raised |-> 0, detail |-> "", identity |-> IdentityOf(d.payload),
              refreshes |-> 0]
        [] d.res = "expired" ->
             IF Truthy(refresh_token) /\ RefreshIdentity(ro).ok
               THEN [raised |-> 0, detail |-> "",
                     identity |-> RefreshIdentity(ro).identity, refreshes |-> 1]
               ELSE [raised |-> 401, detail |-> "Token has expired.",
                     identity |-> NoIdentity,
                     refreshes |-> IF Truthy(refresh_token) THEN 1 ELSE 0]
        [] d.res = "invalid" ->
             [raised |-> 401, detail |-> "Invalid token.",
              identity |-> NoIdentity, refreshes |-> 0]
        [] OTHER ->
             [raised |-> 500, detail |-> "AttributeError",
              identity |-> NoIdentity, refreshes |-> 0]

\* ------------------------------------------------------------ Text Extractor
\* Outcomes of reader.readtext(file_path): it raises, or yields text.
OcrOutcomes == {[kind |-> "raise", text |-> <<>>]} \cup [kind : {"text"}, text : OcrTexts]

\* extract_text(file_path): any engine exception becomes the empty string.
extract_text(oo) == IF oo.kind = "raise" THEN <<>> ELSE oo.text

\* ------------------------------------------------------ Structured Extractor
\* The prompt parse_with_nlp builds: fixed instructions, then the OCR text.
ExtractPrompt(text) == [kind |-> "extract", text |-> text]

\* The degraded record.
Fallback(raw) == [raw_text |-> raw, document_type |-> "unknown"]

\* Outcomes of the hosted model call:
\*   "init_raise"  the import or vertex_init raises before the call,
\*   "raise"       generate_content raises, or reading response.text raises
\*                 (blocked content),
\*   "noattr"      the response has no text attribute (getattr default ""),
\*   "text"        the response carries `text`.
GeminiOutcomes(T) ==
  {[kind |-> k, text |-> <<>>] : k \in {"init_raise", "raise", "noattr"}}
    \cup [kind : {"text"}, text : T]

\* Whether the hosted model was reached at all.
GeminiCalled(go) == go.kind # "init_raise"

\* The primary section without its `return structured`: a parsed object is
\* logged and control falls to the fallback section all the same.
GeminiStructured_noreturn(go) == [returned |-> FALSE, value |-> EmptyDict]

\* The primary section of parse_with_nlp: returned = TRUE when it returns the
\* parsed object `value`; FALSE when control falls to the fallback section.
GeminiStructured(go) ==
  LET gemini_text == IF go.kind = "text" THEN Strip(go.text) ELSE <<>>
      match == RegexSearch(gemini_text)
  IN  IF go.kind \in {"init_raise", "raise"} THEN [returned |-> FALSE, value |-> EmptyDict]
      ELSE IF gemini_text # <<>> /\ match # NoMatch /\ JsonLoads(match).ok
        THEN [returned |-> TRUE, value |-> JsonLoads(match).value]
      ELSE [returned |-> FALSE, value |-> EmptyDict]

\* A status check that treats only server errors as failures.
raise_for_status_5xx(status) == status >= 500 /\ status < 600

\* Response.raise_for_status(): raises for 4xx and 5xx.
raise_for_status(status) == status >= 400 /\ status < 600

\* Outcomes of POST NLP_SERVER:
\*   "raise"   the call raises,
\*   "nojson"  the body is not JSON (or not a JSON object),
\*   "nokey"   a JSON object without "response",
\*   "resp"    a JSON object whose "response" is `text`.
NlpOutcomes(T) ==
  {[kind |-> "raise", status |-> 0, text |-> <<>>]}
    \cup [kind : {"nojson", "nokey"}, status : {200}, text : {<<>>}]
    \cup [kind : {"resp"}, status : {200}, text : T]
    \cup [kind : {"resp"}, status : {404, 500}, text : {<<"{", "d", "}">>}]

\* The text the fallback section works on (llm_text).
LlmText(no) == IF no.kind = "resp" THEN Strip(no.text) ELSE <<>>

\* Whether the fallback section ends in its `except Exception`.
NlpFailed(no) ==
  no.kind = "raise" \/ raise_for_status(no.status) \/ no.kind = "nojson"

\* The fallback section handing back the OCR text, not the server's text,
\* when the server's text holds no brace-delimited object.
NlpStructured_ocr_on_nomatch(text, no) ==
  LET llm_text == LlmText(no)
      match == RegexSearch(llm_text)
  IN  IF NlpFailed(no) THEN Fallback(text)
      ELSE IF match = NoMatch THEN Fallback(text)
      ELSE IF JsonLoads(match).ok THEN JsonLoads(match).value
      ELSE Fallback(llm_text)

\* The fallback section without its inner `except json.JSONDecodeError`: the
\* decode error reaches the outer handler, which hands back the OCR text.
NlpStructured_outer_handler(text, no) ==
  LET llm_text == LlmText(no)
      match == RegexSearch(llm_text)
  IN  IF NlpFailed(no) THEN Fallback(text)
      ELSE IF match = NoMatch THEN Fallback(llm_text)
      ELSE IF JsonLoads(match).ok THEN JsonLoads(match).value
      ELSE Fallback(text)

\* The fallback section of parse_with_nlp: what it returns for OCR text
\* `text` and server answer `no`.
NlpStructured(text, no) ==
  LET llm_text == LlmText(no)
      match == RegexSearch(llm_text)
  IN  IF NlpFailed(no) THEN Fallback(text)
      ELSE IF match # NoMatch /\ JsonLoads(match).ok THEN JsonLoads(match).value
      ELSE Fallback(llm_text)

\* ---------------------------------------------------------- Ledger Forwarder
\* The payload save_to_db posts (the fields the model follows).
LedgerPayload(data, raw_text, identity) ==
  [kind |-> "document",
   document_type |-> DictGet(data, "document_type", "unknown"),
   raw_text |-> raw_text,
   user_id |-> identity.user_id,
   business |-> identity.user_id,
   uploaded_by |-> IF Truthy(identity.username) THEN identity.username
                   ELSE identity.email]

\* The Authorization header save_to_db sends (<<>>: none).
LedgerAuth(tok) == IF ~Truthy(tok) THEN <<"Bearer", tok>> ELSE <<>>

\* Answers of POST BACKEND_SERVER: the call raises, or a status and a body
\* that is JSON or not.
LedgerOutcomes ==
  {[kind |-> "raise", status |-> 0, json |-> FALSE]}
    \cup [kind : {"resp"}, status : {200, 201, 400, 404, 500, 503}, json : BOOLEAN]

\* save_to_db: raised = TRUE when it raises, else the confirmation returned.
save_to_db(lo) ==
  IF lo.kind = "raise" THEN [raised |-> TRUE, confirmation |-> NoneVal, detail |-> "ConnectionError"]
  ELSE IF raise_for_status(lo.status)
    THEN [raised |-> TRUE, confirmation |-> NoneVal, detail |-> "HTTPError"]
  ELSE IF ~lo.json
    THEN [raised |-> TRUE, confirmation |-> NoneVal, detail |-> "JSONDecodeError"]
  ELSE [raised |-> FALSE, confirmation |-> "saved", detail |-> ""]

\* ------------------------------------------------------------------- state
VARIABLES
  endpoint,         \* "upload" or "copilot"
  pc,               \* where the request's handler stands
  authorization,    \* the Authorization header, as its space-separated words
  x_refresh_token,  \* the X-Refresh-Token header, NoneVal when absent
  user_id,          \* the user_id form field of /upload, NoneVal when absent
  token,            \* the bearer credential the handler extracted
  validated,        \* what decode_token returned or raised
  refresh_out,      \* the answer of the refresh endpoint, if it was asked
  identity,         \* the Identity the handler works with
  disk,             \* receipts/<filename> -> bytes
  text,             \* the OCR text
  gemini_out,       \* the hosted model's answer in parse_with_nlp
  nlp_out,          \* the local model server's answer in parse_with_nlp
  structured_data,  \* what parse_with_nlp returned
  confirmation,     \* what save_to_db returned
  reports,          \* report name -> status of the answer used (0: none)
  prompt,           \* the prompt query_gemini_direct works on
  reply,            \* what query_gemini_direct returned
  calls,            \* every call made for the request, in order
  response          \* the HTTP response

\* The requests the server is handling together, and what they share.
VARIABLES
  loop,             \* the request whose handler holds the event loop, 0: none
  requests,         \* request -> its endpoint and its upload
  handler,          \* request -> the stage its handler is in
  files,            \* receipts/<filename> -> content, shared by all requests
  ocr_read          \* request -> the bytes its OCR read off the disk

concvars == <<loop, requests, handler, files, ocr_read>>

\* The state of the one request followed in detail.
reqvars == <<endpoint, pc, authorization, x_refresh_token, user_id, token, validated,
             refresh_out, identity, disk, text, gemini_out, nlp_out,
             structured_data, confirmation, reports, prompt, reply, calls,
             response>>

vars == <<reqvars, concvars>>

\* The uploaded file.
receipt == [filename |-> "r.png", bytes |-> "img1"]

Filenames == {"r.png"}

ReportNames == {"balance-sheet", "pnl", "cashflow"}

NoValidation == [raised |-> 0, detail |-> "unset", identity |-> NoIdentity, refreshes |-> 0]
NoRefresh == [kind |-> "none", status |-> 0, access |-> NoneVal]
NoText == <<"<unset>">>
NoGemini == [kind |-> "none", text |-> <<>>]
NoNlp == [kind |-> "none", status |-> 0, text |-> <<>>]
NoData == [unset |-> "unset"]
NoPrompt == [kind |-> "none", len |-> 0]
NoResult == [kind |-> "none"]
NoResponse == [status |-> 0, kind |-> "none", detail |-> "", cause |-> 0]

\* The Authorization headers a client may send (<<>>: empty or absent).
AuthHeaders ==
  {<<>>, <<"Bearer">>, <<"tok_alice">>} \cup {<<"Bearer", t>> : t \in Credentials}

\* A call: the service, what was sent, the Authorization header sent (<<>>:
\* none) and the answer received.
Call(svc, arg, auth, result) ==
  [svc |-> svc, arg |-> arg, auth |-> auth, result |-> result]

\* The calls of the log made to service svc.
CallsTo(svc) == SelectSeq(calls, LAMBDA c : c.svc = svc)

\* The request as it reaches its handler.
InitRequest ==
  /\ authorization \in AuthHeaders
  /\ x_refresh_token \in {NoneVal, "", "rt"}
  /\ token = NoneVal
  /\ validated = NoValidation
  /\ refresh_out = NoRefresh
  /\ identity = NoIdentity
  /\ disk = [f \in Filenames |-> "absent"]
  /\ text = NoText
  /\ gemini_out = NoGemini
  /\ nlp_out = NoNlp
  /\ structured_data = NoData
  /\ confirmation = NoneVal
  /\ reports = [r \in ReportNames |-> 0]
  /\ prompt = NoPrompt
  /\ reply = NoText
  /\ calls = <<>>
  /\ response = NoResponse

Reqs == 1..NumRequests

ConcFilenames == {"r.png", "s.png"}

NoUpload == [endpoint |-> "none", filename |-> NoneVal, bytes |-> <<>>]
NoRead == <<"<not read>">>

\* No other request is in flight.
ConcIdle ==
  /\ loop = 0
  /\ requests = [r \in Reqs |-> NoUpload]
  /\ handler = [r \in Reqs |-> "done"]
  /\ files = [f \in ConcFilenames |-> <<>>]
  /\ ocr_read = [r \in Reqs |-> NoRead]

Init ==
  /\ InitRequest
  /\ ConcIdle
  /\ \/ endpoint = "upload" /\ pc = "up_auth" /\ user_id \in {NoneVal, "u9"}
     \/ endpoint = "copilot" /\ pc = "co_auth" /\ user_id = NoneVal

\* ----------------------------------------------------------- POST /upload
\* `except Exception` at the end of upload_receipt: whatever was raised in
\* the body, an HTTPException included, leaves as HTTPException(500).
\* cause: the status of the exception caught (0: not an HTTPException).
UploadError(cause, detail) ==
  [status |-> 500, kind |-> "error", detail |-> detail, cause |-> cause]

\* authorization.replace("Bearer ", "").strip()
UploadToken(h) ==
  IF h = <<>> THEN ""
  ELSE IF Len(h) = 2 /\ h[1] = "Bearer" THEN h[2]
  ELSE h[1]

\* identity after the user_id form field has filled a missing user_id.
WithFormUserId(ident, form_user_id) ==
  IF ~Truthy(ident.user_id) /\ Truthy(form_user_id)
    THEN [ident EXCEPT !.user_id = form_user_id]
    ELSE ident

RefreshCall(v, ro) ==
  IF v.refreshes = 1
    THEN <<Call("refresh", [kind |-> "refresh", refresh |-> x_refresh_token], <<>>, ro)>>
    ELSE <<>>

UploadAuthenticate ==
  /\ pc = "up_auth"
  /\ \E ro \in RefreshOutcomes :
       LET tok == UploadToken(authorization)
           v == decode_token(tok, x_refresh_token, ro)
           ident == WithFormUserId(v.identity, user_id)
       IN  /\ token' = tok
           /\ IF ~Truthy(tok)
                THEN /\ response' = UploadError(401, "Missing or invalid token")
                     /\ pc' = "done"
                     /\ UNCHANGED <<validated, refresh_out, identity, calls>>
                ELSE /\ validated' = v
                     /\ refresh_out' = IF v.refreshes = 1 THEN ro ELSE NoRefresh
                     /\ calls' = calls \o RefreshCall(v, ro)
                     /\ IF v.raised # 0
                          THEN /\ response' = UploadError(v.raised, v.detail)
                               /\ pc' = "done"
                               /\ UNCHANGED identity
                          ELSE IF ~Truthy(ident.user_id)
                            THEN /\ response' = UploadError(401, "User ID missing")
                                 /\ pc' = "done"
                                 /\ UNCHANGED identity
                          ELSE /\ identity' = ident
                               /\ pc' = "up_open"
                               /\ UNCHANGED response
  /\ UNCHANGED <<concvars, endpoint, authorization, x_refresh_token, user_id, disk, text,
                 gemini_out, nlp_out, structured_data, confirmation, reports,
                 prompt, reply>>

\* open(file_path, "wb"): the file is created or truncated; it may fail.
UploadOpenFile ==
  /\ pc = "up_open"
  /\ \E ok \in BOOLEAN :
       IF ok
         THEN /\ disk' = [disk EXCEPT ![receipt.filename] = ""]
              /\ pc' = "up_write"
              /\ UNCHANGED response
         ELSE /\ response' = UploadError(0, "OSError")
              /\ pc' = "done"
              /\ UNCHANGED disk
  /\ UNCHANGED <<concvars, endpoint, authorization, x_refresh_token, user_id, token, validated,
                 refresh_out, identity, text, gemini_out, nlp_out,
                 structured_data, confirmation, reports, prompt, reply, calls>>

\* f.write(await receipt.read()), and the file is closed; the read or the
\* write may fail, which leaves the truncated file.
UploadWriteFile ==
  /\ pc = "up_write"
  /\ \E ok \in BOOLEAN :
       IF ok
         THEN /\ disk' = [disk EXCEPT ![receipt.filename] = receipt.bytes]
              /\ calls' = Append(calls, Call("disk", [kind |-> "save",
                                                       path |-> receipt.filename],
                                              <<>>, NoResult))
              /\ pc' = "up_ocr"
              /\ UNCHANGED response
         ELSE /\ response' = UploadError(0, "OSError")
              /\ pc' = "done"
              /\ UNCHANGED <<disk, calls>>
  /\ UNCHANGED <<concvars, endpoint, authorization, x_refresh_token, user_id, token, validated,
                 refresh_out, identity, text, gemini_out, nlp_out,
                 structured_data, confirmation, reports, prompt, reply>>

\* A handler that answers at once when the OCR text is empty.
AfterOcr_skip_empty(t) == IF Strip(t) = <<>> THEN "up_respond" ELSE "parse_gemini"

\* Where upload_receipt goes once extract_text has returned `t`: empty text
\* is logged and the pipeline goes on.
AfterOcr(t) == "parse_gemini"

UploadOcr ==
  /\ pc = "up_ocr"
  /\ \E oo \in OcrOutcomes :
       /\ text' = extract_text(oo)
       /\ calls' = Append(calls, Call("ocr", [kind |-> "readtext",
                                               path |-> receipt.filename,
                                               bytes |-> disk[receipt.filename]], <<>>, oo))
       /\ pc' = AfterOcr(extract_text(oo))
  /\ UNCHANGED <<concvars, endpoint, authorization, x_refresh_token, user_id, token, validated,
                 refresh_out, identity, disk, gemini_out, nlp_out,
                 structured_data, confirmation, reports, prompt, reply,
                 response>>

\* parse_with_nlp, primary section: the hosted model is asked once.
GeminiCall(T) ==
  /\ pc = "parse_gemini"
  /\ \E go \in GeminiOutcomes(T) :
       /\ gemini_out' = go
       /\ calls' = IF GeminiCalled(go)
                     THEN Append(calls, Call("gemini", ExtractPrompt(text), <<>>, go))
                     ELSE calls
       /\ IF GeminiStructured(go).returned
            THEN /\ structured_data' = GeminiStructured(go).value
                 /\ pc' = "up_forward"
            ELSE /\ pc' = "parse_nlp"
                 /\ UNCHANGED structured_data
  /\ UNCHANGED <<concvars, endpoint, authorization, x_refresh_token, user_id, token, validated,
                 refresh_out, identity, disk, text, nlp_out, confirmation,
                 reports, prompt, reply, response>>

\* parse_with_nlp, fallback section: the local model server is asked once.
NlpServerCall(T) ==
  /\ pc = "parse_nlp"
  /\ \E no \in NlpOutcomes(T) :
       /\ nlp_out' = no
       /\ calls' = Append(calls, Call("nlp", ExtractPrompt(text), <<>>, no))
       /\ structured_data' = NlpStructured(text, no)
       /\ pc' = "up_forward"
  /\ UNCHANGED <<concvars, endpoint, authorization, x_refresh_token, user_id, token, validated,
                 refresh_out, identity, disk, text, gemini_out, confirmation,
                 reports, prompt, reply, response>>

\* process_invoice after parse_with_nlp: save_to_db posts the payload; its
\* exception reaches upload_receipt's `except Exception`.
SaveToDb ==
  /\ pc = "up_forward"
  /\ \E lo \in LedgerOutcomes :
       /\ calls' = Append(calls, Call("ledger",
                                       LedgerPayload(structured_data, text, identity),
                                       LedgerAuth(token), lo))
       /\ IF save_to_db(lo).raised
            THEN /\ response' = UploadError(0, save_to_db(lo).detail)
                 /\ pc' = "done"
                 /\ UNCHANGED confirmation
            ELSE /\ confirmation' = save_to_db(lo).confirmation
                 /\ pc' = "up_respond"
                 /\ UNCHANGED response
  /\ UNCHANGED <<concvars, endpoint, authorization, x_refresh_token, user_id, token, validated,
                 refresh_out, identity, disk, text, gemini_out, nlp_out,
                 structured_data, reports, prompt, reply>>

\* return JSONResponse({status, structured_data, file_path, identity})
UploadRespond ==
  /\ pc = "up_respond"
  /\ response' = [status |-> 200, kind |-> "success", detail |-> "", cause |-> 0]
  /\ pc' = "done"
  /\ UNCHANGED <<concvars, endpoint, authorization, x_refresh_token, user_id, token, validated,
                 refresh_out, identity, disk, text, gemini_out, nlp_out,
                 structured_data, confirmation, reports, prompt, reply, calls>>

\* ----------------------------------------------------------- POST /copilot
\* Lengths the code compares prompts with.
SanitizeLimit == 7000
TruncationNoteLen == 30
RetryPrefixLen == 111
RetryKeep == 4000

\* The prompt copilot_endpoint builds: its length, and how many braces lie
\* in its first SanitizeLimit characters.
CopilotPrompts == [kind : {"copilot"}, len : {200, 7000, 7001, 9000}, braces : {0, 6}]

\* sanitize_prompt: a long prompt is cut and a note appended; every brace
\* gets a newline.
sanitize_prompt(p) ==
  LET cut == IF p.len > SanitizeLimit THEN SanitizeLimit + TruncationNoteLen ELSE p.len
  IN  [kind |-> "copilot", len |-> cut + p.braces]

\* The retry prompt: a fixed instruction and the first RetryKeep characters.
short_prompt(p) ==
  [kind |-> "summary",
   len |-> RetryPrefixLen + (IF p.len > RetryKeep THEN RetryKeep ELSE p.len)]

EmptyReply == <<"(empty Gemini response)">>
FailedReply == <<"Gemini query failed: ", "exception">>

\* Outcomes of gemini_model.generate_content in query_gemini_direct:
\*   "raise"    the call raises,
\*   "blocked"  reading response.text raises ValueError,
\*   "noattr"   the response has no text attribute,
\*   "text"     the response carries `text`.
DirectOutcomes ==
  {[kind |-> k, text |-> <<>>] : k \in {"raise", "blocked", "noattr"}}
    \cup [kind : {"text"}, text : SampleTexts]

\* return gemini_text, without the placeholder.
ReplyOf_bare(gemini_text) == gemini_text

\* return gemini_text or "(empty Gemini response)"
ReplyOf(gemini_text) == IF gemini_text = <<>> THEN EmptyReply ELSE gemini_text

\* query_gemini_direct up to its first read of response.text:
\* retry = TRUE when the inner handler asks the model again.
GeminiDirectFirst(go) ==
  CASE go.kind = "raise" -> [retry |-> FALSE, reply |-> FailedReply]
    [] go.kind \in {"blocked", "noattr"} -> [retry |-> TRUE, reply |-> NoText]
    [] OTHER -> [retry |-> FALSE, reply |-> ReplyOf(Strip(go.text))]

\* query_gemini_direct from the retry on: what it returns.
GeminiDirectRetry(go) ==
  CASE go.kind \in {"raise", "blocked"} -> FailedReply
    [] go.kind = "noattr" -> ReplyOf(EmptyReply)
    [] OTHER -> ReplyOf(Strip(go.text))

\* auth_header.split(" ")[1]; "<IndexError>" when there is no second word.
CopilotToken(h) == IF Len(h) >= 2 THEN h[2] ELSE "<IndexError>"

\* copilot_endpoint raises outside any handler: FastAPI answers an
\* HTTPException with its status and anything else with 500.
CopilotError(status, detail) ==
  [status |-> status, kind |-> "error", detail |-> detail, cause |-> status]

CopilotAuthenticate ==
  /\ pc = "co_auth"
  /\ \E ro \in RefreshOutcomes :
       LET tok == CopilotToken(authorization)
           v == decode_token(tok, x_refresh_token, ro)
       IN  IF authorization = <<>>
             THEN /\ response' = CopilotError(401, "Missing auth header")
                  /\ pc' = "done"
                  /\ UNCHANGED <<token, validated, refresh_out, identity, calls>>
           ELSE IF tok = "<IndexError>"
             THEN /\ response' = CopilotError(500, "IndexError")
                  /\ pc' = "done"
                  /\ UNCHANGED <<token, validated, refresh_out, identity, calls>>
           ELSE /\ token' = tok
                /\ validated' = v
                /\ refresh_out' = IF v.refreshes = 1 THEN ro ELSE NoRefresh
                /\ calls' = calls \o RefreshCall(v, ro)
                /\ IF v.raised # 0
                     THEN /\ response' = CopilotError(v.raised, v.detail)
                          /\ pc' = "done"
                          /\ UNCHANGED identity
                     ELSE /\ identity' = v.identity
                          /\ pc' = "co_balance"
                          /\ UNCHANGED response
  /\ UNCHANGED <<concvars, endpoint, authorization, x_refresh_token, user_id, disk, text,
                 gemini_out, nlp_out, structured_data, confirmation, reports,
                 prompt, reply>>

\* Answers of a report GET: the call raises (timeout included), or a status
\* and a body that is JSON or not.
FetchOutcomes ==
  {[kind |-> "raise", status |-> 0, json |-> FALSE]}
    \cup [kind : {"resp"}, status : {200, 401, 500}, json : BOOLEAN]

\* Whether requests.get(...).json() raises inside the try block.
FetchRaises(fo) == fo.kind = "raise" \/ ~fo.json

\* The Authorization header of the report calls.
ReportAuth(tok) == <<"Bearer", tok>>

\* One of the three sequential report fetches.
FetchReport(name, here, next) ==
  /\ pc = here
  /\ \E fo \in FetchOutcomes :
       /\ calls' = Append(calls, Call(name, [kind |-> "get"], ReportAuth(token), fo))
       /\ IF FetchRaises(fo)
            THEN /\ response' = CopilotError(502, "Django request failed")
                 /\ pc' = "done"
                 /\ UNCHANGED reports
            ELSE /\ reports' = [reports EXCEPT ![name] = fo.status]
                 /\ pc' = next
                 /\ UNCHANGED response
  /\ UNCHANGED <<concvars, endpoint, authorization, x_refresh_token, user_id, token, validated,
                 refresh_out, identity, disk, text, gemini_out, nlp_out,
                 structured_data, confirmation, prompt, reply>>

FetchBalance == FetchReport("balance-sheet", "co_balance", "co_pnl")
FetchPnl == FetchReport("pnl", "co_pnl", "co_cashflow")
FetchCashflow == FetchReport("cashflow", "co_cashflow", "co_gemini")

\* query_gemini_direct(prompt): the prompt is sanitized and the model asked.
GeminiDirectCall ==
  /\ pc = "co_gemini"
  /\ \E p \in CopilotPrompts, go \in DirectOutcomes :
       /\ prompt' = sanitize_prompt(p)
       /\ calls' = Append(calls, Call("gemini_direct", sanitize_prompt(p), <<>>, go))
       /\ IF GeminiDirectFirst(go).retry
            THEN /\ pc' = "co_retry"
                 /\ UNCHANGED reply
            ELSE /\ reply' = GeminiDirectFirst(go).reply
                 /\ pc' = "co_respond"
  /\ UNCHANGED <<concvars, endpoint, authorization, x_refresh_token, user_id, token, validated,
                 refresh_out, identity, disk, text, gemini_out, nlp_out,
                 structured_data, confirmation, reports, response>>

\* The inner handler of query_gemini_direct: one more call, short prompt.
GeminiDirectRetryCall ==
  /\ pc = "co_retry"
  /\ \E go \in DirectOutcomes :
       /\ calls' = Append(calls, Call("gemini_direct", short_prompt(prompt), <<>>, go))
       /\ reply' = GeminiDirectRetry(go)
       /\ pc' = "co_respond"
  /\ UNCHANGED <<concvars, endpoint, authorization, x_refresh_token, user_id, token, validated,
                 refresh_out, identity, disk, text, gemini_out, nlp_out,
                 structured_data, confirmation, reports, prompt, response>>

\* return {"reply": response_text}
CopilotRespond ==
  /\ pc = "co_respond"
  /\ response' = [status |-> 200, kind |-> "reply", detail |-> "", cause |-> 0]
  /\ pc' = "done"
  /\ UNCHANGED <<concvars, endpoint, authorization, x_refresh_token, user_id, token, validated,
                 refresh_out, identity, disk, text, gemini_out, nlp_out,
                 structured_data, confirmation, reports, prompt, reply, calls>>

\* ------------------------------------------------------------ specifications
\* One request, either endpoint, model outputs from SampleTexts.
Next ==
  \/ UploadAuthenticate
  \/ UploadOpenFile
  \/ UploadWriteFile
  \/ UploadOcr
  \/ GeminiCall(SampleTexts)
  \/ NlpServerCall(SampleTexts)
  \/ SaveToDb
  \/ UploadRespond
  \/ CopilotAuthenticate
  \/ FetchBalance
  \/ FetchPnl
  \/ FetchCashflow
  \/ GeminiDirectCall
  \/ GeminiDirectRetryCall
  \/ CopilotRespond

Spec == Init /\ [][Next]_vars

\* parse_with_nlp alone, from the state in which process_invoice calls it,
\* with every model output of at most MaxLen characters.
InitExtract ==
  /\ ConcIdle
  /\ endpoint = "upload"
  /\ pc = "parse_gemini"
  /\ authorization = <<"Bearer", "tok_alice">>
  /\ x_refresh_token = NoneVal
  /\ user_id = NoneVal
  /\ token = "tok_alice"
  /\ validated = decode_token("tok_alice", NoneVal, NoRefresh)
  /\ refresh_out = NoRefresh
  /\ identity = IdentityOf(JwtDecode("tok_alice").payload)
  /\ disk = [f \in Filenames |-> receipt.bytes]
  /\ text \in OcrTexts
  /\ gemini_out = NoGemini
  /\ nlp_out = NoNlp
  /\ structured_data = NoData
  /\ confirmation = NoneVal
  /\ reports = [r \in ReportNames |-> 0]
  /\ prompt = NoPrompt
  /\ reply = NoText
  /\ calls = << Call("disk", [kind |-> "save", path |-> receipt.filename], <<>>,
                     NoResult),
                Call("ocr", [kind |-> "readtext", path |-> receipt.filename,
                             bytes |-> receipt.bytes], <<>>,
                     [kind |-> "text", text |-> text]) >>
  /\ response = NoResponse

NextExtract ==
  \/ GeminiCall(Texts)
  \/ NlpServerCall(Texts)

SpecExtract == InitExtract /\ [][NextExtract]_vars

\* ------------------------------------------- several requests on one server
\* The server runs every handler on one event loop.  Both handlers are
\* coroutines; a coroutine keeps the loop until it reaches an await that
\* suspends or returns.  The token validator, the OCR engine, the model
\* clients and the HTTP client are ordinary blocking functions, so a handler
\* that is inside one of them still holds the loop.  The only await in either
\* handler is the read of the uploaded body, between opening the receipt file
\* and writing it.

\* The body of request r, n chunks long; every chunk names its request.
UploadBytes(r, n) == [k \in 1..n |-> <<r, k>>]

ConcUploads(r) ==
  { [endpoint |-> "upload", filename |-> f, bytes |-> UploadBytes(r, n)] :
      f \in ConcFilenames, n \in 1..MaxUploadLen }
  \cup { [endpoint |-> "copilot", filename |-> NoneVal, bytes |-> <<>>] }

\* The stages in which a handler is inside a call to the OCR engine, a
\* model or the backend.
IoStages ==
  {"ocr", "gemini", "nlp", "ledger",
   "balance", "pnl", "cashflow", "gemini_direct", "retry"}

\* Where a handler can be once the call it is in has returned.
ConcAfter(ep, stage) ==
  IF ep = "upload"
    THEN CASE stage = "ocr"    -> {"gemini"}
           [] stage = "gemini" -> {"nlp", "ledger"}
           [] stage = "nlp"    -> {"ledger"}
           [] stage = "ledger" -> {"done"}
           [] OTHER            -> {}
    ELSE CASE stage = "balance"       -> {"pnl", "done"}
           [] stage = "pnl"           -> {"cashflow", "done"}
           [] stage = "cashflow"      -> {"gemini_direct", "done"}
           [] stage = "gemini_direct" -> {"retry", "done"}
           [] stage = "retry"         -> {"done"}
           [] OTHER                   -> {}

\* open(path, "wb") creates the file or empties the one that is there.
OpenWb(content) == <<>>

\* f.write(data) on a file opened by open(path, "wb"): the data goes to
\* offset 0 of what the file holds now, over what is there, and what lies
\* beyond the data stays.
WriteAt(content, data) ==
  data \o SubSeq(content, Len(data) + 1, Len(content))

\* The loop gives request r's handler its first turn: the handler runs into
\* decode_token.
ConcStart(r) ==
  /\ handler[r] = "received"
  /\ loop = 0
  /\ loop' = r
  /\ handler' = [handler EXCEPT ![r] = "auth"]
  /\ UNCHANGED <<requests, files, ocr_read>>

\* decode_token returns.  A request that is refused, or whose receipt file
\* cannot be opened, is answered; a summary goes on to its first report; an
\* upload opens its receipt file and reaches the awaited read, which may
\* hand the loop back.
ConcAuthReturn(r) ==
  /\ handler[r] = "auth"
  /\ loop = r
  /\ \/ /\ handler' = [handler EXCEPT ![r] = "done"]
        /\ loop' = 0
        /\ UNCHANGED files
     \/ /\ requests[r].endpoint = "copilot"
        /\ handler' = [handler EXCEPT ![r] = "balance"]
        /\ UNCHANGED <<loop, files>>
     \/ /\ requests[r].endpoint = "upload"
        /\ files' = [files EXCEPT ![requests[r].filename] = OpenWb(@)]
        /\ handler' = [handler EXCEPT ![r] = "read"]
        /\ loop' \in {0, r}
  /\ UNCHANGED <<requests, ocr_read>>

\* The awaited read returns the body; the handler writes it to the receipt
\* file, closes the file and runs into extract_text.
ConcReadReturn(r) ==
  /\ handler[r] = "read"
  /\ loop \in {0, r}
  /\ loop' = r
  /\ files' = [files EXCEPT ![requests[r].filename] = WriteAt(@, requests[r].bytes)]
  /\ handler' = [handler EXCEPT ![r] = "ocr"]
  /\ UNCHANGED <<requests, ocr_read>>

\* The call the handler is in returns and the handler runs into its next
\* call or returns its response.  What the OCR engine was given is what the
\* receipt file held.
ConcAdvance(r) ==
  /\ handler[r] \in IoStages
  /\ loop = r
  /\ \E next \in ConcAfter(requests[r].endpoint, handler[r]) :
       /\ handler' = [handler EXCEPT ![r] = next]
       /\ loop' = IF next = "done" THEN 0 ELSE r
  /\ ocr_read' = IF handler[r] = "ocr"
                   THEN [ocr_read EXCEPT ![r] = files[requests[r].filename]]
                   ELSE ocr_read
  /\ UNCHANGED <<requests, files>>

\* Any step of request r's handler.
ConcStep(r) ==
  \/ ConcStart(r)
  \/ ConcAuthReturn(r)
  \/ ConcReadReturn(r)
  \/ ConcAdvance(r)

\* NumRequests requests have arrived together; none has been started.
InitConc ==
  /\ InitRequest
  /\ endpoint = "upload"
  /\ pc = "done"
  /\ authorization = <<>>
  /\ x_refresh_token = NoneVal
  /\ user_id = NoneVal
  /\ loop = 0
  /\ requests \in { q \in [Reqs -> UNION { ConcUploads(r) : r \in Reqs }] :
                      \A r \in Reqs : q[r] \in ConcUploads(r) }
  /\ handler = [r \in Reqs |-> "received"]
  /\ files = [f \in ConcFilenames |-> <<>>]
  /\ ocr_read = [r \in Reqs |-> NoRead]

NextConc ==
  \/ \E r \in Reqs : ConcStart(r) /\ UNCHANGED reqvars
  \/ \E r \in Reqs : ConcAuthReturn(r) /\ UNCHANGED reqvars
  \/ \E r \in Reqs : ConcReadReturn(r) /\ UNCHANGED reqvars
  \/ \E r \in Reqs : ConcAdvance(r) /\ UNCHANGED reqvars

SpecConc == InitConc /\ [][NextConc]_vars

\* -------------------------------------------------------------- properties
\* Whether the refresh endpoint's recorded answer gives a usable credential.
RefreshSucceeded ==
  /\ refresh_out.kind = "resp"
  /\ refresh_out.status = 200
  /\ JwtDecode(refresh_out.access).res = "ok"

\* Authentication of the /upload request has failed: empty bearer token,
\* invalid signature, expired with no or failed refresh, or no user_id.
UploadAuthFailed ==
  LET tok == UploadToken(authorization)
  IN  \/ tok = ""
      \/ /\ validated # NoValidation
         /\ \/ JwtDecode(tok).res = "invalid"
            \/ JwtDecode(tok).res = "expired"
                 /\ (~Truthy(x_refresh_token) \/ ~RefreshSucceeded)
            \/ validated.raised = 0 /\ ~Truthy(validated.identity.user_id)
                 /\ ~Truthy(user_id)

\* C1: POST /upload answers 401 (never 500 or 200) whenever authentication
\* fails.
C1_UploadAuthFailureIs401 ==
  (endpoint = "upload" /\ pc # "up_auth" /\ UploadAuthFailed)
    => (pc = "done" /\ response.status = 401)

\* C2: decode_token has exactly these outcomes: a valid credential returns
\* its Identity with no remote call; an expired one with a refresh credential
\* whose single refresh call answers 200 with a decodable access credential
\* returns the Identity of the new credential; an expired one with no refresh
\* credential or a refresh that fails in any way raises 401 "Token has
\* expired."; any other decode error raises 401 "Invalid token." with no
\* refresh call; nothing else escapes.
C2_DecodeTokenOutcomes ==
  LET d == JwtDecode(token)
      nrefresh == Len(CallsTo("refresh"))
  IN  validated # NoValidation =>
        /\ validated.raised \in {0, 401}
        /\ nrefresh <= 1
        /\ d.res = "ok" =>
             /\ validated.raised = 0
             /\ validated.identity =
                  [username |-> DictGet(d.payload, "username", NoneVal),
                   email |-> DictGet(d.payload, "email", NoneVal),
                   user_id |-> DictGet(d.payload, "user_id", NoneVal)]
             /\ nrefresh = 0
        /\ (d.res = "expired" /\ Truthy(x_refresh_token) /\ RefreshSucceeded) =>
             /\ validated.raised = 0
             /\ validated.identity = IdentityOf(JwtDecode(refresh_out.access).payload)
             /\ nrefresh = 1
        /\ (d.res = "expired" /\ ~Truthy(x_refresh_token)) =>
             /\ validated.raised = 401
             /\ validated.detail = "Token has expired."
             /\ nrefresh = 0
        /\ (d.res = "expired" /\ Truthy(x_refresh_token) /\ ~RefreshSucceeded) =>
             /\ validated.raised = 401
             /\ validated.detail = "Token has expired."
             /\ nrefresh = 1
        /\ d.res = "invalid" =>
             /\ validated.raised = 401
             /\ validated.detail = "Invalid token."
             /\ nrefresh = 0

\* An expired credential was refreshed: the refresh answered 200 with a
\* decodable credential and decode_token returned its Identity.
C2_Witness ==
  /\ JwtDecode(token).res = "expired"
  /\ Len(CallsTo("refresh")) = 1
  /\ RefreshSucceeded
  /\ validated.raised = 0
  /\ validated.identity.user_id = "u1"

\* parse_with_nlp has returned.
ParseReturned == structured_data # NoData

\* The hosted model answered with text that is not empty after trimming and
\* holds no brace-delimited object.
PrimaryTextWithoutObject ==
  /\ gemini_out.kind = "text"
  /\ Strip(gemini_out.text) # <<>>
  /\ RegexSearch(gemini_out.text) = NoMatch

\* A parseable object was found in the hosted model's text.
PrimaryParsed ==
  /\ gemini_out.kind = "text"
  /\ RegexSearch(Strip(gemini_out.text)) # NoMatch
  /\ JsonLoads(RegexSearch(Strip(gemini_out.text))).ok

\* The local model server's call failed: it raised, answered with an error
\* status, or its body was not JSON.
SecondaryFailed ==
  \/ nlp_out.kind \in {"raise", "nojson"}
  \/ nlp_out.status >= 400

\* The text obtained from the local model server, trimmed.
SecondaryText == IF nlp_out.kind = "resp" THEN Strip(nlp_out.text) ELSE <<>>

\* A parseable object was found in the local model server's text.
SecondaryParsed ==
  /\ ~SecondaryFailed
  /\ RegexSearch(SecondaryText) # NoMatch
  /\ JsonLoads(RegexSearch(SecondaryText)).ok

\* C3 as stated: when the hosted model's output is non-empty and holds no
\* brace-delimited object, parse_with_nlp returns {raw_text: that output,
\* document_type: "unknown"}.
C3_PrimaryOutputIsRawText ==
  (ParseReturned /\ PrimaryTextWithoutObject) =>
     \/ structured_data = Fallback(gemini_out.text)
     \/ structured_data = Fallback(Strip(gemini_out.text))

\* C3 as amended: when the hosted model's output is non-empty and holds no
\* brace-delimited object, the local model server is asked, and when its
\* output holds no brace-delimited object either, parse_with_nlp returns
\* {raw_text: the server's output, trimmed, document_type: "unknown"}.
C3_SecondaryOutputIsRawText ==
  (ParseReturned /\ PrimaryTextWithoutObject) =>
     /\ Len(CallsTo("nlp")) = 1
     /\ (~SecondaryFailed /\ RegexSearch(SecondaryText) = NoMatch) =>
          structured_data = [raw_text |-> SecondaryText, document_type |-> "unknown"]

\* Both models answered prose without an object; the record carries the
\* second answer.
C3_Witness ==
  /\ ParseReturned
  /\ gemini_out = [kind |-> "text", text |-> <<"d", "d">>]
  /\ nlp_out = [kind |-> "resp", status |-> 200, text |-> <<" ", "d">>]
  /\ structured_data = [raw_text |-> <<"d">>, document_type |-> "unknown"]

\* C4: every record parse_with_nlp returns contains the key document_type.
C4_AlwaysDocumentType ==
  ParseReturned => "document_type" \in DOMAIN structured_data

\* C5: in one call of parse_with_nlp each provider is called at most once;
\* the local model server is called, with the same prompt, whenever the
\* hosted model's call raises or its text is empty after trimming, and is
\* not called when an object was parsed from the hosted model's text.
C5_SingleFallback ==
  LET primary == CallsTo("gemini")
      secondary == CallsTo("nlp")
  IN  /\ Len(primary) <= 1
      /\ Len(secondary) <= 1
      /\ ParseReturned =>
           /\ ( \/ gemini_out.kind \in {"init_raise", "raise"}
                \/ (IF gemini_out.kind = "text" THEN Strip(gemini_out.text) ELSE <<>>) = <<>> )
                => /\ Len(secondary) = 1
                   /\ secondary[1].arg = [kind |-> "extract", text |-> text]
                   /\ \A i \in 1..Len(primary) : primary[i].arg = secondary[1].arg
           /\ PrimaryParsed => Len(secondary) = 0

\* The hosted model's call raised and the local model server was asked.
C5_Witness ==
  /\ ParseReturned
  /\ gemini_out.kind = "raise"
  /\ Len(CallsTo("gemini")) = 1
  /\ Len(CallsTo("nlp")) = 1

\* C6: parse_with_nlp never raises: whatever the two providers do it returns
\* a mapping, and when neither yields a parseable object the mapping is
\* {raw_text: the local server's text, or the OCR text if its call failed,
\* document_type: "unknown"}.
C6_DegradesToMinimalRecord ==
  /\ pc \in {"parse_gemini", "parse_nlp"} => response = NoResponse
  /\ pc \in {"up_forward", "up_respond"} => ParseReturned
  /\ (ParseReturned /\ ~PrimaryParsed /\ ~SecondaryParsed) =>
       structured_data =
         [raw_text |-> IF SecondaryFailed THEN text ELSE SecondaryText,
          document_type |-> "unknown"]

\* The hosted model raised and the local server's object did not parse.
C6_Witness ==
  /\ ParseReturned
  /\ gemini_out.kind = "raise"
  /\ nlp_out = [kind |-> "resp", status |-> 200, text |-> <<"{", "{", "}">>]
  /\ structured_data.document_type = "unknown"

\* The answer the backend gave to the ingestion POST failed it.
LedgerFailed ==
  /\ Len(CallsTo("ledger")) >= 1
  /\ \/ CallsTo("ledger")[1].result.kind = "raise"
     \/ CallsTo("ledger")[1].result.status >= 400

\* C7: when the backend answers the ingestion POST with a status >= 400 or
\* the POST raises, save_to_db returns no confirmation and the request ends
\* failed with a 500 response, never with the success response.
C7_LedgerFailureIsFatal ==
  LedgerFailed =>
    /\ confirmation = NoneVal
    /\ pc = "done"
    /\ response.status = 500
    /\ response.kind = "error"

\* The backend rejected the document with 404 and the upload answered 500.
C7_Witness ==
  /\ Len(CallsTo("ledger")) = 1
  /\ CallsTo("ledger")[1].result.kind = "resp"
  /\ CallsTo("ledger")[1].result.status = 404
  /\ response.status = 500

\* The services called after authentication, in order.
PipelineCalls ==
  LET rest == SelectSeq(calls, LAMBDA c : c.svc # "refresh")
  IN  [i \in 1..Len(rest) |-> rest[i].svc]

\* The complete runs of the upload pipeline.
FullRuns ==
  { <<"disk", "ocr", "gemini", "ledger">>,
    <<"disk", "ocr", "gemini", "nlp", "ledger">>,
    <<"disk", "ocr", "nlp", "ledger">> }

IsPrefix(a, b) == Len(a) <= Len(b) /\ SubSeq(b, 1, Len(a)) = a

\* C8: once the file is saved, the stages run in the order saved-to-disk,
\* OCR, Structured Extractor, Ledger Forwarder, each once, none skipped,
\* whatever the OCR yields; the success response comes only after the
\* forwarder has returned.
C8_StagesInOrder ==
  (endpoint = "upload" /\ Len(CallsTo("disk")) >= 1) =>
    /\ \E f \in FullRuns : IsPrefix(PipelineCalls, f)
    /\ pc \in {"up_respond", "done"} =>
         /\ PipelineCalls \in FullRuns
         /\ ParseReturned
    /\ response.kind = "success" => confirmation = "saved"

\* The OCR engine raised, the text was empty, and the upload still went
\* through the extractor and the forwarder to the success response.
C8_Witness ==
  /\ endpoint = "upload"
  /\ pc = "done"
  /\ response.kind = "success"
  /\ text = <<>>
  /\ CallsTo("ocr")[1].result.kind = "raise"
  /\ PipelineCalls = <<"disk", "ocr", "gemini", "nlp", "ledger">>

\* One of the report fetches failed: it raised, or the backend answered it
\* with an error status.
ReportFetchFailed ==
  \E i \in 1..Len(calls) :
    /\ calls[i].svc \in ReportNames
    /\ \/ calls[i].result.kind = "raise"
       \/ calls[i].result.status >= 400

\* C9: if any report fetch fails, by raising or by an error status, the
\* request is aborted with 502 and the language model is never called.
C9_FetchFailureAborts ==
  ReportFetchFailed =>
    /\ pc = "done"
    /\ response.status = 502
    /\ Len(CallsTo("gemini_direct")) = 0
    /\ reply = NoText

\* C10: once validation and the three fetches have succeeded, /copilot
\* answers 200 with a non-empty reply: the model's text (trimmed) when it is
\* not empty, a placeholder otherwise, after at most one retry with the
\* truncated prompt, and never an error response.
C10_CopilotAlwaysReplies ==
  LET direct == CallsTo("gemini_direct")
      last == direct[Len(direct)].result
  IN  /\ pc \in {"co_gemini", "co_retry", "co_respond"} => response = NoResponse
      /\ Len(direct) <= 2
      /\ Len(direct) = 2 =>
           /\ direct[1].result.kind \in {"blocked", "noattr"}
           /\ direct[2].arg.kind = "summary"
           /\ direct[2].arg.len <= RetryPrefixLen + RetryKeep
      /\ pc = "co_respond" =>
           /\ Len(direct) >= 1
           /\ reply # <<>>
           /\ reply # NoText
           /\ (last.kind = "text" /\ Strip(last.text) # <<>>) => reply = Strip(last.text)
           /\ (last.kind = "text" /\ Strip(last.text) = <<>>) => reply = EmptyReply
           /\ last.kind # "text" => reply \in {EmptyReply, FailedReply}
      /\ (pc = "done" /\ Len(direct) >= 1) =>
           /\ response.status = 200
           /\ response.kind = "reply"
           /\ reply # <<>>
           /\ reply # NoText

\* The model was blocked, then answered whitespace on the retry: the reply
\* is the placeholder, with status 200.
C10_Witness ==
  /\ pc = "done"
  /\ response.status = 200
  /\ Len(CallsTo("gemini_direct")) = 2
  /\ CallsTo("gemini_direct")[1].result.kind = "blocked"
  /\ CallsTo("gemini_direct")[2].result = [kind |-> "text", text |-> <<" ">>]
  /\ reply = EmptyReply

\* The ingestion POSTs save_to_db sent.
LedgerCalls == CallsTo("ledger")

\* C12: every ingestion POST for a request with a non-empty bearer
\* credential carries "Authorization: Bearer <that credential>"; the header
\* is absent only when no credential was supplied.
C12_LedgerCallCarriesBearer ==
  \A i \in 1..Len(LedgerCalls) :
    IF token \notin {NoneVal, ""}
      THEN LedgerCalls[i].auth = <<"Bearer", token>>
      ELSE LedgerCalls[i].auth = <<>>

\* The credential the Token Validator accepted: the refreshed access
\* credential after a refresh, else the one the client sent.
AcceptedCredential ==
  IF Len(CallsTo("refresh")) = 1 /\ validated.raised = 0
    THEN refresh_out.access
    ELSE token

\* The user_id claim of the accepted credential (NoneVal: no such claim).
AcceptedUserId ==
  LET payload == JwtDecode(AcceptedCredential).payload
  IN  IF "user_id" \in DOMAIN payload THEN payload.user_id ELSE NoneVal

\* C13: user_id and business of every forwarded ledger payload equal the
\* user_id claim of the accepted credential; the user_id form field never
\* determines them.
C13_ForwardedUserIdFromCredential ==
  \A i \in 1..Len(LedgerCalls) :
    /\ LedgerCalls[i].arg.user_id = AcceptedUserId
    /\ LedgerCalls[i].arg.business = AcceptedUserId

\* The calls to the backend made after token validation.
BackendCalls == SelectSeq(calls, LAMBDA c : c.svc \in ReportNames \cup {"ledger"})

\* C14: after the Token Validator accepted the request by refreshing an
\* expired credential, every later backend call of the request carries the
\* refreshed access credential, never the expired one.
C14_RefreshedCredentialUsed ==
  (Len(CallsTo("refresh")) = 1 /\ validated.raised = 0) =>
    \A i \in 1..Len(BackendCalls) :
      BackendCalls[i].auth = <<"Bearer", refresh_out.access>>

\* Request q's handler can take a step now.
CanRun(q) == ENABLED ConcStep(q)

\* C11: while one request's handler is inside a call to the OCR engine, a
\* model or the backend, the handler of any other unanswered request can
\* take a step.
C11_HandlerYieldsDuringIo ==
  \A r, q \in Reqs :
    (r # q /\ handler[r] \in IoStages /\ handler[q] # "done") => CanRun(q)

\* C15: whatever the OCR engine reads for a request is exactly the bytes
\* that request uploaded, also when another request wrote the same file.
C15_OcrReadsOwnUpload ==
  \A r, q \in Reqs :
    ( /\ r # q
      /\ requests[r].endpoint = "upload"
      /\ requests[q].endpoint = "upload"
      /\ requests[r].filename = requests[q].filename
      /\ ocr_read[r] # NoRead )
    => ocr_read[r] = requests[r].bytes

====
